---- MODULE Spec2Model ----
(***************************************************************************)
(* Model of the extension analysis pipeline of analyze.py: main's loop     *)
(* over the joined release rows, analyze_extension's steps on the shared   *)
(* scratch directory "extensions", and the batched upsert into the         *)
(* analyses table.                                                         *)
(*                                                                         *)
(* Conventions.  A Python str that the code only compares or concatenates  *)
(* is a TLA+ string; a str the code edits character by character (the      *)
(* object key and the paths made from it) is a sequence of one-character   *)
(* strings.  A Python dict is a record with a field "keys" holding the     *)
(* keys that are present; None is <<>> and a value v that may be None is   *)
(* <<v>>.  An uncaught Python exception ends the process: pc = "aborted"   *)
(* and exc names the exception.  The scratch directory is the set of files *)
(* under "extensions"; directories are containers only.                    *)
(***************************************************************************)
EXTENDS Naturals, Sequences, FiniteSets, TLC

\* ------------------------------------------------------------------ bounds
NumReleases == 2
MaxRuns == 2
MaxDay == 2
BatchSize == 1

\* ------------------------------------------------- characters and strings
Chars(s) ==
  CASE s = "extensions" -> <<"e","x","t","e","n","s","i","o","n","s">>
    [] s = ".vsix" -> <<".","v","s","i","x">>
    [] s = "vsix" -> <<"v","s","i","x">>
    [] s = "unzipped" -> <<"u","n","z","i","p","p","e","d">>
    [] s = "acme" -> <<"a","c","m","e">>
    [] s = "tool" -> <<"t","o","o","l">>
    [] s = "lint" -> <<"l","i","n","t">>
    [] s = "packages" -> <<"p","a","c","k","a","g","e","s">>
    [] s = "package.json" -> <<"p","a","c","k","a","g","e",".","j","s","o","n">>
    [] s = "package-lock.json" ->
         <<"p","a","c","k","a","g","e","-","l","o","c","k",".","j","s","o","n">>

\* str.startswith at offset i (1-based): s[i-1:].startswith(p)
StartsWithAt(s, i, p) ==
  /\ i + Len(p) - 1 <= Len(s)
  /\ \A k \in 1..Len(p) : s[i + k - 1] = p[k]

\* str.replace(old, new) for a non-empty old: left to right, non-overlapping
RECURSIVE ReplaceFrom(_, _, _, _)
ReplaceFrom(s, i, old, new) ==
  IF i > Len(s) THEN <<>>
  ELSE IF StartsWithAt(s, i, old)
       THEN new \o ReplaceFrom(s, i + Len(old), old, new)
       ELSE <<s[i]>> \o ReplaceFrom(s, i + 1, old, new)

StrReplace(s, old, new) == ReplaceFrom(s, 1, old, new)

\* str.rfind(c) for one character, 1-based, 0 when absent
LastIndexOf(s, c) ==
  LET hits == {i \in 1..Len(s) : s[i] = c}
  IN IF hits = {} THEN 0 ELSE CHOOSE i \in hits : \A j \in hits : j <= i

\* os.path.splitext(p)[0]: the extension starts at the last dot of the last
\* path component, unless that component has only leading dots before it
SplitextRoot(p) ==
  LET sepIndex == LastIndexOf(p, "/")
      dotIndex == LastIndexOf(p, ".")
  IN IF dotIndex > sepIndex
        /\ \E k \in (sepIndex + 1)..(dotIndex - 1) : p[k] # "."
     THEN SubSeq(p, 1, dotIndex - 1)
     ELSE p

\* os.path.join(a, b) for a relative b
PathJoin(a, b) == a \o <<"/">> \o b

\* ----------------------------------------------------------- Python values
None == <<>>
Some(v) == <<v>>

\* dict.get(k, default) and dict[k] on a dict record
PyGet(d, k, default) == IF k \in d.keys THEN d[k] ELSE default
HasKey(d, k) == k \in d.keys

Min(a, b) == IF a <= b THEN a ELSE b

\* ------------------------------------------------------- upstream tables
\* The releases, extensions and publishers tables are read-only here.  A
\* release row carries the columns main reads after the join.
ReleaseId(i) == "r" \o ToString(i)
ExtensionIdFor(i) == "e" \o ToString(((i - 1) % 2) + 1)
VersionFor(i) == <<"1", ".", ToString(i)>>

extensions_df ==
  << [extension_id |-> "e1", extension_name |-> Chars("tool"), publisher_id |-> "p1"],
     [extension_id |-> "e2", extension_name |-> Chars("lint"), publisher_id |-> "p1"] >>

publishers_df ==
  << [publisher_id |-> "p1", publisher_name |-> Chars("acme")] >>

ReleasesTable(uploaded) ==
  [i \in 1..NumReleases |->
     [release_id |-> ReleaseId(i), extension_id |-> ExtensionIdFor(i),
      version |-> VersionFor(i), uploaded_to_s3 |-> uploaded[i]]]

\* DataFrame.merge(right, on=key, how="inner"): for every left row in order,
\* one output row per right row with the same key, in the right's order
\* a merge that pairs the left row with every right row, whatever its key
MatchesOfAny(lrow, right, key) == [k \in 1..Len(right) |-> lrow @@ right[k]]

RECURSIVE MatchesOf(_, _, _)
MatchesOf(lrow, right, key) ==
  IF right = <<>> THEN <<>>
  ELSE (IF Head(right)[key] = lrow[key] THEN <<lrow @@ Head(right)>> ELSE <<>>)
       \o MatchesOf(lrow, Tail(right), key)

RECURSIVE Merge(_, _, _)
Merge(left, right, key) ==
  IF left = <<>> THEN <<>>
  ELSE MatchesOf(Head(left), right, key) \o Merge(Tail(left), right, key)

combine_dataframes(releases) ==
  Merge(Merge(releases, extensions_df, "extension_id"), publishers_df, "publisher_id")

\* ----------------------------------------------------- files and tool output
\* package.json of an extension as json.load returns it
Deps1 == << <<"lodash", "^4.0.0">> >>
Manifest0 == [keys |-> {}, dependencies |-> <<>>, activationEvents |-> <<>>]
Manifest1 == [keys |-> {"dependencies", "activationEvents"},
              dependencies |-> Deps1, activationEvents |-> <<"onStartup">>]

\* what an S3 object holds: no zip at all, a zip that passes is_zipfile but
\* fails to extract, or a zip whose tree has no package.json, one that is
\* not JSON, or a parsable one
ManifestFiles ==
  { [state |-> "absent", data |-> Manifest0],
    [state |-> "invalid", data |-> Manifest0],
    [state |-> "valid", data |-> Manifest0],
    [state |-> "valid", data |-> Manifest1] }

Archives ==
  { [zip |-> "notzip", manifest |-> [state |-> "absent", data |-> Manifest0]],
    [zip |-> "badzip", manifest |-> [state |-> "absent", data |-> Manifest0]] }
  \cup { [zip |-> "zip", manifest |-> m] : m \in ManifestFiles }

NoContent == [zip |-> "none", manifest |-> [state |-> "absent", data |-> Manifest0]]

\* stdout of "npm audit --json"
Advisory1 == [keys |-> {"module_name", "severity", "title", "url"},
              module_name |-> "lodash", severity |-> "high",
              title |-> "prototype pollution", url |-> "http://example.com"]
AuditJson0 == [keys |-> {}, advisories |-> <<>>]
AuditJson2 == [keys |-> {"advisories"}, advisories |-> <<Advisory1, Advisory1>>]
AuditOutputs == {AuditJson0, AuditJson2}

\* stdout of "semgrep --json"
Finding(m) == [extra |-> [message |-> m]]
SemgrepJson0 == [keys |-> {"results"}, results |-> <<>>]
SemgrepJson4 == [keys |-> {"results"},
                 results |-> <<Finding("m1"), Finding("m2"), Finding("m1"), Finding("m1")>>]
SemgrepEmptyDict == [keys |-> {}, results |-> <<>>]
SemgrepOutputs == {SemgrepJson0, SemgrepJson4}

\* how a subprocess.run(..., check=True) followed by json.loads can end
ToolOutcomes == {"ok", "nonzero", "malformed"}

\* ------------------------------------------------------ the scratch files
\* A file of the scratch directory: its path, the release whose processing
\* wrote it, and for an archive or an extracted tree what it holds.
File(kind, path, owner, content) ==
  [kind |-> kind, path |-> path, owner |-> owner, content |-> content]

\* extracting into a folder that already holds a tree overwrites the files
\* of the same name and leaves the others
ExtractOver(fs, path, owner, archive) ==
  LET old == {f \in fs : f.path = path}
      kept == IF archive.manifest.state = "absent" /\ old # {}
              THEN (CHOOSE f \in old : TRUE).content.manifest
              ELSE archive.manifest
  IN {f \in fs : f.path # path}
       \cup {File("tree", path, owner, [zip |-> "zip", manifest |-> kept])}

WriteFile(fs, f) == {g \in fs : g.path # f.path} \cup {f}

\* path p is directory d or lies below it
IsUnder(p, d) == p = d \/ StartsWithAt(p, 1, d \o <<"/">>)

ScratchRoot == Chars("extensions")
VsixFolder == PathJoin(ScratchRoot, Chars("vsix"))
UnzippedFolder == PathJoin(ScratchRoot, Chars("unzipped"))
PackagesFolder == PathJoin(ScratchRoot, Chars("packages"))
PackageJsonPath == PathJoin(PackagesFolder, Chars("package.json"))
PackageLockPath == PathJoin(PackagesFolder, Chars("package-lock.json"))

\* --------------------------------------------- the functions of analyze.py
\* analyze_extension: f"extensions/{publisher_name}/{extension_name}/{version}.vsix"
ObjectKey(row) ==
  ScratchRoot \o <<"/">> \o row.publisher_name \o <<"/">> \o row.extension_name
    \o <<"/">> \o row.version \o Chars(".vsix")

\* download_vsix_file and unzip_vsix_file: where the archive is stored
DownloadPath(object_key) == PathJoin(VsixFolder, StrReplace(object_key, <<"/">>, <<"-">>))

\* unzip_vsix_file: where the archive is extracted
UnzipFolder(object_key) == PathJoin(UnzippedFolder, SplitextRoot(object_key))

\* find_package_json: where the manifest is searched
SearchFolder(object_key) ==
  UnzippedFolder \o <<"/">> \o StrReplace(object_key, Chars(".vsix"), <<>>)

\* unzip_vsix_file: a file that is no zip is left alone; exc is the
\* exception extractall raises on a zip it cannot read
unzip_vsix_file(fs, object_key, owner) ==
  LET archives == {f \in fs : f.path = DownloadPath(object_key)}
      a == (CHOOSE f \in archives : TRUE).content
  IN IF archives = {} \/ a.zip = "notzip" THEN [exc |-> "none", fs |-> fs]
     ELSE IF a.zip = "badzip" THEN [exc |-> "BadZipFile", fs |-> fs]
     ELSE [exc |-> "none", fs |-> ExtractOver(fs, UnzipFolder(object_key), owner, a)]

\* find_package_json: the first package.json below the search folder,
\* parsed; None when there is none
find_package_json(fs, object_key) ==
  LET found == {f \in fs : /\ f.kind = "tree"
                           /\ IsUnder(f.path, SearchFolder(object_key))
                           /\ f.content.manifest.state # "absent"}
      m == (CHOOSE f \in found : TRUE).content.manifest
  IN IF found = {} THEN [exc |-> "none", value |-> None]
     ELSE IF m.state = "invalid" THEN [exc |-> "JSONDecodeError", value |-> None]
     ELSE [exc |-> "none", value |-> Some(m.data)]

NoMetadata == [dependencies |-> <<>>, activation_events |-> <<>>]

\* the activation events read under the record's column name
extract_package_metadata_snake(package_json) ==
  IF package_json = None THEN [exc |-> "AttributeError", value |-> NoMetadata]
  ELSE [exc |-> "none",
        value |-> [dependencies |-> PyGet(package_json[1], "dependencies", <<>>),
                   activation_events |-> PyGet(package_json[1], "activation_events", <<>>)]]

\* extract_package_metadata: package_json.get on None raises AttributeError
extract_package_metadata(package_json) ==
  IF package_json = None THEN [exc |-> "AttributeError", value |-> NoMetadata]
  ELSE [exc |-> "none",
        value |-> [dependencies |-> PyGet(package_json[1], "dependencies", <<>>),
                   activation_events |-> PyGet(package_json[1], "activationEvents", <<>>)]]

\* semgrep_analysis and run_npm_audit: CalledProcessError is caught and {}
\* returned; what json.loads raises is not caught
RunJsonTool(outcome, stdout, emptyDict) ==
  CASE outcome = "ok" -> [exc |-> "none", value |-> stdout]
    [] outcome = "nonzero" -> [exc |-> "none", value |-> emptyDict]
    [] outcome = "malformed" -> [exc |-> "JSONDecodeError", value |-> emptyDict]

semgrep_analysis(outcome, stdout) == RunJsonTool(outcome, stdout, SemgrepEmptyDict)
run_npm_audit(outcome, stdout) == RunJsonTool(outcome, stdout, AuditJson0)

\* extract_semgrep_metadata: the messages in first-seen order, each once;
\* semgrep_output["results"] raises KeyError when the key is missing
\* every message is appended, seen before or not
DedupKeepAll(results, acc) ==
  acc \o [k \in 1..Len(results) |-> results[k].extra.message]

RECURSIVE Dedup(_, _)
Dedup(results, acc) ==
  IF results = <<>> THEN acc
  ELSE LET m == Head(results).extra.message
       IN Dedup(Tail(results),
                IF \E k \in 1..Len(acc) : acc[k] = m THEN acc ELSE Append(acc, m))

extract_semgrep_metadata(semgrep_output) ==
  IF ~HasKey(semgrep_output, "results") THEN [exc |-> "KeyError", value |-> <<>>]
  ELSE [exc |-> "none", value |-> Dedup(semgrep_output.results, <<>>)]

\* parse_audit_result: one entry per advisory of the mapping, in its order
ParsedAdvisory(advisory) ==
  [package |-> PyGet(advisory, "module_name", "null"),
   severity |-> PyGet(advisory, "severity", "null"),
   title |-> PyGet(advisory, "title", "null"),
   url |-> PyGet(advisory, "url", "null")]

parse_audit_result(audit_json) ==
  LET vulnerabilities == PyGet(audit_json, "advisories", <<>>)
  IN [k \in 1..Len(vulnerabilities) |-> ParsedAdvisory(vulnerabilities[k])]

\* clear_directory: every file and directory under "extensions" is removed
clear_directory(fs) == {}

\* analyze_extension: "analysis-" + row["release_id"]
AnalysisId(release_id) == "analysis-" \o release_id

\* ------------------------------------------------------------------- state
VARIABLES
  releases_df,           \* the releases table (upstream, read-only)
  store,                 \* the rows of the analyses table, in heap order
  scratch,               \* the files under "extensions"
  today,                 \* date.today()
  runs,                  \* invocations of main so far
  pc,                    \* main: "idle", "loop", "analyze", "upsert", "done", "aborted"
  exc,                   \* the exception that ended the process, or "none"
  combined_df,           \* main: the joined rows
  analyzed_release_ids,  \* main: release ids in the store when the run began
  idx,                   \* main: position of the for loop in combined_df
  analysis_metadata,     \* main: the records produced so far
  step,                  \* analyze_extension: state of the current release
  analysis_data,         \* analyze_extension: the record under assembly
  batch_i,               \* upsert_analyses: batches handed to upsert_data so far
  tool,                  \* analyze_extension: how the calls for the current release ended
  locals,                \* analyze_extension: package_json, audit_json, semgrep_output
  calls                  \* S3 calls, subprocess calls and row writes of this run (history)

vars == <<releases_df, store, scratch, today, runs, pc, exc, combined_df,
          analyzed_release_ids, idx, analysis_metadata, step, analysis_data,
          batch_i, tool, locals, calls>>

mainVars == <<combined_df, analyzed_release_ids, idx, analysis_metadata>>

NoAnalysis ==
  [keys |-> {}, analysis_id |-> "", release_id |-> "", insertion_date |-> 0,
   dependencies |-> <<>>, activation_events |-> <<>>,
   npm_audit_vulnerabilities |-> <<>>, semgrep_detections |-> <<>>]

\* no call made yet
NoTool == [s3_download |-> "none", npm_install |-> "none", npm_audit |-> "none",
           semgrep |-> "none"]

\* the locals of analyze_extension before they are assigned
NoLocals == [package_json |-> None, audit_json |-> AuditJson0,
             semgrep_output |-> SemgrepEmptyDict]

Init ==
  /\ releases_df \in {ReleasesTable(u) : u \in [1..NumReleases -> BOOLEAN]}
  /\ store = <<>>
  /\ scratch = {}
  /\ today = 1
  /\ runs = 0
  /\ pc = "idle"
  /\ exc = "none"
  /\ combined_df = <<>>
  /\ analyzed_release_ids = {}
  /\ idx = 0
  /\ analysis_metadata = <<>>
  /\ step = "NONE"
  /\ analysis_data = NoAnalysis
  /\ batch_i = 0
  /\ tool = NoTool
  /\ locals = NoLocals
  /\ calls = {}

\* an uncaught exception leaves main
Raise(e) == pc' = "aborted" /\ exc' = e

Call(op) == <<op, analysis_data.release_id, "called">>

\* ----------------------------------------------------------------- main
\* main, lines 286-306: a new process; the scratch directory and the
\* tables are what the previous run left
StartRun ==
  /\ pc \in {"idle", "done", "aborted"}
  /\ runs < MaxRuns
  /\ runs' = runs + 1
  /\ today' \in today..Min(today + 1, MaxDay)
  /\ combined_df' = combine_dataframes(releases_df)
  /\ analyzed_release_ids' = {store[k].release_id : k \in 1..Len(store)}
  /\ analysis_metadata' = <<>>
  /\ idx' = 1
  /\ pc' = "loop"
  /\ exc' = "none"
  /\ step' = "NONE"
  /\ analysis_data' = NoAnalysis
  /\ batch_i' = 0
  /\ tool' = NoTool
  /\ locals' = NoLocals
  /\ calls' = {}
  /\ UNCHANGED <<releases_df, store, scratch>>

\* line 309 without the test of the analyzed set
EligibleIgnoringAnalyzed(row, analyzed) == row.uploaded_to_s3

\* line 309 without the test of the uploaded flag
EligibleIgnoringUploaded(row, analyzed) == row.release_id \notin analyzed

\* main, line 309
Eligible(row, analyzed) == row.uploaded_to_s3 /\ row.release_id \notin analyzed

\* main, lines 307-309: a row that is not eligible is passed over
SkipRow ==
  /\ pc = "loop"
  /\ idx <= Len(combined_df)
  /\ ~Eligible(combined_df[idx], analyzed_release_ids)
  /\ idx' = idx + 1
  /\ UNCHANGED <<releases_df, store, scratch, today, runs, pc, exc,
                 combined_df, analyzed_release_ids, analysis_metadata, step,
                 analysis_data, batch_i, tool, locals, calls>>

\* analyze_extension, lines 246-250: the record as it starts
NewAnalysis(release_id, date) ==
  [NoAnalysis EXCEPT !.keys = {"analysis_id", "release_id", "insertion_date"},
                     !.analysis_id = AnalysisId(release_id),
                     !.release_id = release_id,
                     !.insertion_date = date]

\* main, line 310 and analyze_extension, lines 246-257
BeginAnalyze ==
  /\ pc = "loop"
  /\ idx <= Len(combined_df)
  /\ Eligible(combined_df[idx], analyzed_release_ids)
  /\ pc' = "analyze"
  /\ step' = "PENDING"
  /\ analysis_data' = NewAnalysis(combined_df[idx].release_id, today)
  /\ tool' = NoTool
  /\ locals' = NoLocals
  /\ UNCHANGED <<releases_df, store, scratch, today, runs, exc,
                 mainVars, batch_i, calls>>

object_key == ObjectKey(combined_df[idx])

\* ---------------------------------------------------- analyze_extension
pipelineFrame == <<releases_df, store, today, runs, mainVars, batch_i>>

\* line 258, download_vsix_file: the object is absent (download_file raises)
\* or its bytes are written under extensions/vsix
DownloadVsixFile ==
  /\ pc = "analyze" /\ step = "PENDING"
  /\ calls' = calls \cup {Call("s3_download")}
  /\ \/ /\ Raise("ClientError")
        /\ tool' = [tool EXCEPT !.s3_download = "absent"]
        /\ UNCHANGED <<scratch, step>>
     \/ \E archive \in Archives :
          /\ scratch' = WriteFile(scratch, File("vsix", DownloadPath(object_key),
                                                analysis_data.release_id, archive))
          /\ tool' = [tool EXCEPT !.s3_download = "ok"]
          /\ step' = "FETCHED"
          /\ UNCHANGED <<pc, exc>>
  /\ UNCHANGED <<pipelineFrame, analysis_data, locals>>

\* line 259, unzip_vsix_file
UnzipVsixFile ==
  /\ pc = "analyze" /\ step = "FETCHED"
  /\ LET r == unzip_vsix_file(scratch, object_key, analysis_data.release_id)
     IN IF r.exc # "none"
        THEN Raise(r.exc) /\ UNCHANGED <<scratch, step>>
        ELSE scratch' = r.fs /\ step' = "EXTRACTED" /\ UNCHANGED <<pc, exc>>
  /\ UNCHANGED <<pipelineFrame, analysis_data, tool, locals, calls>>

\* lines 262-264: find_package_json, extract_package_metadata, update
PackageJsonAnalysis ==
  /\ pc = "analyze" /\ step = "EXTRACTED"
  /\ LET package_json == find_package_json(scratch, object_key)
         package_metadata == extract_package_metadata(package_json.value)
     IN IF package_json.exc # "none"
        THEN Raise(package_json.exc) /\ UNCHANGED <<step, analysis_data, locals>>
        ELSE IF package_metadata.exc # "none"
        THEN /\ Raise(package_metadata.exc)
             /\ locals' = [locals EXCEPT !.package_json = package_json.value]
             /\ UNCHANGED <<step, analysis_data>>
        ELSE /\ locals' = [locals EXCEPT !.package_json = package_json.value]
             /\ analysis_data' =
                  [analysis_data EXCEPT
                     !.keys = @ \cup {"dependencies", "activation_events"},
                     !.dependencies = package_metadata.value.dependencies,
                     !.activation_events = package_metadata.value.activation_events]
             /\ step' = "METADATA_EXTRACTED"
             /\ UNCHANGED <<pc, exc>>
  /\ UNCHANGED <<pipelineFrame, scratch, tool, calls>>

\* lines 267-271: create_package_json_file, install_package_lock_only (its
\* CalledProcessError is caught), run_npm_audit, parse_audit_result, update
NpmAuditAnalysis ==
  /\ pc = "analyze" /\ step = "METADATA_EXTRACTED"
  /\ \E install \in {"ok", "nonzero"}, outcome \in ToolOutcomes, stdout \in AuditOutputs :
       LET owner == analysis_data.release_id
           withManifest == WriteFile(scratch,
                             File("package.json", PackageJsonPath, owner, NoContent))
           withLock == IF install = "ok"
                       THEN WriteFile(withManifest,
                              File("package-lock.json", PackageLockPath, owner, NoContent))
                       ELSE withManifest
           audit_json == run_npm_audit(outcome, stdout)
       IN /\ scratch' = withLock
          /\ calls' = calls \cup {Call("npm_install"), Call("npm_audit")}
          /\ tool' = [tool EXCEPT !.npm_install = install, !.npm_audit = outcome]
          /\ IF audit_json.exc # "none"
             THEN Raise(audit_json.exc) /\ UNCHANGED <<step, analysis_data, locals>>
             ELSE /\ locals' = [locals EXCEPT !.audit_json = audit_json.value]
                  /\ analysis_data' =
                       [analysis_data EXCEPT
                          !.keys = @ \cup {"npm_audit_vulnerabilities"},
                          !.npm_audit_vulnerabilities = parse_audit_result(audit_json.value)]
                  /\ step' = "AUDITED"
                  /\ UNCHANGED <<pc, exc>>
  /\ UNCHANGED pipelineFrame

\* the scan started without waiting for the audit
SemgrepBeforeAudit ==
  /\ pc = "analyze" /\ step \in {"METADATA_EXTRACTED", "AUDITED"}
  /\ \E outcome \in ToolOutcomes, stdout \in SemgrepOutputs :
       LET semgrep_output == semgrep_analysis(outcome, stdout)
           semgrep_metadata == extract_semgrep_metadata(semgrep_output.value)
       IN /\ calls' = calls \cup {Call("semgrep")}
          /\ tool' = [tool EXCEPT !.semgrep = outcome]
          /\ IF semgrep_output.exc # "none"
             THEN Raise(semgrep_output.exc) /\ UNCHANGED <<step, analysis_data, locals>>
             ELSE IF semgrep_metadata.exc # "none"
             THEN /\ Raise(semgrep_metadata.exc)
                  /\ locals' = [locals EXCEPT !.semgrep_output = semgrep_output.value]
                  /\ UNCHANGED <<step, analysis_data>>
             ELSE /\ locals' = [locals EXCEPT !.semgrep_output = semgrep_output.value]
                  /\ analysis_data' =
                       [analysis_data EXCEPT
                          !.keys = @ \cup {"semgrep_detections"},
                          !.semgrep_detections = semgrep_metadata.value]
                  /\ step' = "SCANNED"
                  /\ UNCHANGED <<pc, exc>>
  /\ UNCHANGED <<pipelineFrame, scratch>>

\* lines 274-276: semgrep_analysis, extract_semgrep_metadata, update
SemgrepAnalysis ==
  /\ pc = "analyze" /\ step = "AUDITED"
  /\ \E outcome \in ToolOutcomes, stdout \in SemgrepOutputs :
       LET semgrep_output == semgrep_analysis(outcome, stdout)
           semgrep_metadata == extract_semgrep_metadata(semgrep_output.value)
       IN /\ calls' = calls \cup {Call("semgrep")}
          /\ tool' = [tool EXCEPT !.semgrep = outcome]
          /\ IF semgrep_output.exc # "none"
             THEN Raise(semgrep_output.exc) /\ UNCHANGED <<step, analysis_data, locals>>
             ELSE IF semgrep_metadata.exc # "none"
             THEN /\ Raise(semgrep_metadata.exc)
                  /\ locals' = [locals EXCEPT !.semgrep_output = semgrep_output.value]
                  /\ UNCHANGED <<step, analysis_data>>
             ELSE /\ locals' = [locals EXCEPT !.semgrep_output = semgrep_output.value]
                  /\ analysis_data' =
                       [analysis_data EXCEPT
                          !.keys = @ \cup {"semgrep_detections"},
                          !.semgrep_detections = semgrep_metadata.value]
                  /\ step' = "SCANNED"
                  /\ UNCHANGED <<pc, exc>>
  /\ UNCHANGED <<pipelineFrame, scratch>>

\* the record is returned and appended from wherever the pipeline stands
ReturnPartial ==
  /\ pc = "analyze" /\ step \in {"METADATA_EXTRACTED", "AUDITED", "SCANNED"}
  /\ scratch' = clear_directory(scratch)
  /\ analysis_metadata' = Append(analysis_metadata, analysis_data)
  /\ step' = "ASSEMBLED"
  /\ idx' = idx + 1
  /\ pc' = "loop"
  /\ tool' = NoTool
  /\ locals' = NoLocals
  /\ UNCHANGED <<releases_df, store, today, runs, exc, combined_df,
                 analyzed_release_ids, analysis_data, batch_i, calls>>

\* lines 278-280 and main, line 311: clear_directory, return, append
ClearAndReturn ==
  /\ pc = "analyze" /\ step = "SCANNED"
  /\ scratch' = clear_directory(scratch)
  /\ analysis_metadata' = Append(analysis_metadata, analysis_data)
  /\ step' = "ASSEMBLED"
  /\ idx' = idx + 1
  /\ pc' = "loop"
  /\ tool' = NoTool
  /\ locals' = NoLocals
  /\ UNCHANGED <<releases_df, store, today, runs, exc, combined_df,
                 analyzed_release_ids, analysis_data, batch_i, calls>>

\* ------------------------------------------------------- upsert_analyses
\* json.dumps: the value as JSON text
JsonDumps(v) == [json |-> v]

\* lines 207-218: the tuple of one DataFrame row, in the order of the
\* column list of the INSERT
ToValues(row) ==
  [analysis_id |-> row.analysis_id,
   release_id |-> row.release_id,
   insertion_date |-> row.insertion_date,
   dependencies |-> JsonDumps(row.dependencies),
   activation_events |-> JsonDumps(row.activation_events),
   semgrep_detections |-> JsonDumps(row.semgrep_detections),
   npm_audit_vulnerabilities |-> JsonDumps(row.npm_audit_vulnerabilities)]

Values(analyses_df) == [k \in 1..Len(analyses_df) |-> ToValues(analyses_df[k])]

\* lines 194-205, INSERT ... ON CONFLICT (analysis_id) DO UPDATE SET ...:
\* a row whose analysis_id is in the table replaces that row
\* the INSERT without its ON CONFLICT clause
InsertRow(table, v) == Append(table, v)

UpsertRow(table, v) ==
  IF \E k \in 1..Len(table) : table[k].analysis_id = v.analysis_id
  THEN [k \in 1..Len(table) |->
          IF table[k].analysis_id = v.analysis_id THEN v ELSE table[k]]
  ELSE Append(table, v)

\* what the statement does with row v: "insert", or on a conflict "update"
\* ("same" when the row it replaces is equal to v)
RowEffect(table, v) ==
  IF \E k \in 1..Len(table) : table[k] = v THEN "same"
  ELSE IF \E k \in 1..Len(table) : table[k].analysis_id = v.analysis_id THEN "update"
  ELSE "insert"

RECURSIVE UpsertRows(_, _)
UpsertRows(table, batch) ==
  IF batch = <<>> THEN table
  ELSE UpsertRows(UpsertRow(table, Head(batch)), Tail(batch))

\* one INSERT ... ON CONFLICT DO UPDATE cannot affect a row twice: the
\* statement fails when two of its rows share the conflict key
StatementFails(batch) ==
  \E i, j \in 1..Len(batch) : i # j /\ batch[i].analysis_id = batch[j].analysis_id

\* the slice without its upper end, values[i:]
BatchFrom(values, i) == SubSeq(values, i * BatchSize + 1, Len(values))

\* lines 220-221: values[i : i + batch_size] of the batch_i-th iteration
BatchAt(values, i) ==
  SubSeq(values, i * BatchSize + 1, Min((i + 1) * BatchSize, Len(values)))

MoreBatches == batch_i * BatchSize < Len(analysis_metadata)

\* main, lines 314-315: the loop is over, upsert_analyses is called
EndLoop ==
  /\ pc = "loop"
  /\ idx > Len(combined_df)
  /\ pc' = "upsert"
  /\ batch_i' = 0
  /\ UNCHANGED <<releases_df, store, scratch, today, runs, exc, mainVars,
                 step, analysis_data, tool, locals, calls>>

upsertFrame ==
  <<releases_df, scratch, today, runs, mainVars, step, analysis_data, tool, locals>>

\* upsert_data: the batch is executed and committed as one transaction
UpsertBatchCommit ==
  /\ pc = "upsert"
  /\ MoreBatches
  /\ LET batch == BatchAt(Values(analysis_metadata), batch_i)
     IN /\ ~StatementFails(batch)
        /\ store' = UpsertRows(store, batch)
        /\ calls' = calls \cup {<<"upsert", batch[k].release_id, RowEffect(store, batch[k])>> :
                                  k \in 1..Len(batch)}
  /\ batch_i' = batch_i + 1
  /\ UNCHANGED <<upsertFrame, pc, exc>>

\* upsert_data: the write fails (the database is unreachable or the
\* statement is rejected); nothing of the batch is written and the error
\* reaches the caller
UpsertBatchFail ==
  /\ pc = "upsert"
  /\ MoreBatches
  /\ Raise("PersistenceError")
  /\ UNCHANGED <<upsertFrame, store, batch_i, calls>>

\* lines 220-227: no batch is left, main returns
UpsertFinish ==
  /\ pc = "upsert"
  /\ ~MoreBatches
  /\ pc' = "done"
  /\ UNCHANGED <<upsertFrame, store, batch_i, exc, calls>>

\* ------------------------------------------------------------ specification
Next ==
  \/ StartRun
  \/ SkipRow
  \/ BeginAnalyze
  \/ DownloadVsixFile
  \/ UnzipVsixFile
  \/ PackageJsonAnalysis
  \/ NpmAuditAnalysis
  \/ SemgrepAnalysis
  \/ ClearAndReturn
  \/ EndLoop
  \/ UpsertBatchCommit
  \/ UpsertBatchFail
  \/ UpsertFinish

Spec == Init /\ [][Next]_vars

\* ------------------------------------------- upsert_analyses on its own
\* A record as analyze_extension returns it, with empty findings
CompleteRecord(release_id, date) ==
  [NewAnalysis(release_id, date) EXCEPT
     !.keys = @ \cup {"dependencies", "activation_events",
                      "npm_audit_vulnerabilities", "semgrep_detections"}]

RECURSIVE SeqsUpTo(_, _)
SeqsUpTo(S, n) ==
  IF n = 0 THEN {<<>>}
  ELSE LET shorter == SeqsUpTo(S, n - 1)
       IN shorter \cup {Append(s, x) : s \in {q \in shorter : Len(q) = n - 1}, x \in S}

\* upsert_analyses called with any DataFrame of such records, up to one row
\* more than a batch holds
CallUpsert ==
  /\ pc \in {"idle", "done", "aborted"}
  /\ runs < MaxRuns
  /\ runs' = runs + 1
  /\ today' \in today..Min(today + 1, MaxDay)
  /\ analysis_metadata' \in
       SeqsUpTo({CompleteRecord(ReleaseId(i), today') : i \in 1..NumReleases},
                BatchSize + 1) \ {<<>>}
  /\ pc' = "upsert"
  /\ batch_i' = 0
  /\ exc' = "none"
  /\ calls' = {}
  /\ UNCHANGED <<releases_df, store, scratch, combined_df, analyzed_release_ids, idx,
                 step, analysis_data, tool, locals>>

NextUpsert ==
  \/ CallUpsert
  \/ UpsertBatchCommit
  \/ UpsertBatchFail
  \/ UpsertFinish

SpecUpsert == Init /\ [][NextUpsert]_vars

\* ------------------------------------------------------------------ claims
RunEnded == pc \in {"done", "aborted"}

ProcessingOps == {"s3_download", "npm_install", "npm_audit", "semgrep"}

\* release r was fetched, audited or scanned in this run
Touched(r) == \E c \in calls : c[1] \in ProcessingOps /\ c[2] = r

Fetched(r) == \E c \in calls : c[1] = "s3_download" /\ c[2] = r

\* a record for release r is in the batch this run has produced so far
Produced(r) == \E k \in 1..Len(analysis_metadata) : analysis_metadata[k].release_id = r

Stored(r) == \E k \in 1..Len(store) : store[k].release_id = r

\* C1: a failure while processing one release is fatal for that release
\* only: when the run has ended, every eligible release of the run has been
\* taken up, whatever happened to the releases before it.
C1_FailureSkipsOnlyThatRelease ==
  RunEnded =>
    \A k \in 1..Len(combined_df) :
      Eligible(combined_df[k], analyzed_release_ids) => Fetched(combined_df[k].release_id)

\* C2: when a run has ended (other than by a failed write to the store),
\* the store holds a record for every release the run processed to the
\* end, whether or not other releases of the run failed.
C2_ProcessedReleasesAreStored ==
  (RunEnded /\ exc # "PersistenceError") =>
    \A k \in 1..Len(analysis_metadata) : Stored(analysis_metadata[k].release_id)

\* C3: the store holds at most one row per release identifier, and every
\* row's analysis identifier is "analysis-" followed by its release
\* identifier.
C3_OneRecordPerRelease ==
  /\ \A i, j \in 1..Len(store) : store[i].release_id = store[j].release_id => i = j
  /\ \A i \in 1..Len(store) : store[i].analysis_id = "analysis-" \o store[i].release_id

\* C3 witness: an upsert has ended in which a record equal to a stored row
\* was written again, and the store holds that release once.
C3_Witness ==
  /\ pc = "done"
  /\ \E i \in 1..NumReleases :
       /\ <<"upsert", ReleaseId(i), "same">> \in calls
       /\ Cardinality({k \in 1..Len(store) : store[k].release_id = ReleaseId(i)}) = 1

\* C4: a release with a record in the store when the run began is not
\* fetched, audited or scanned in that run, is not the release under
\* analysis, and has no record in the produced batch.  (The store is
\* written only after the loop, so in the loop it is the store the run
\* began with; analyzed_release_ids is that set as the run read it.)
C4_AnalyzedNeverReprocessed ==
  /\ pc \in {"loop", "analyze"} =>
       \A k \in 1..Len(store) :
         /\ ~Touched(store[k].release_id)
         /\ ~Produced(store[k].release_id)
         /\ (pc = "analyze" => analysis_data.release_id # store[k].release_id)
  /\ \A r \in analyzed_release_ids : ~Touched(r) /\ ~Produced(r)

\* C4 witness: a later run has passed over a stored release and fetched
\* another one.
C4_Witness ==
  /\ runs >= 2
  /\ pc = "done"
  /\ analyzed_release_ids # {}
  /\ \E k \in 1..Len(combined_df) :
       /\ combined_df[k].release_id \notin analyzed_release_ids
       /\ Fetched(combined_df[k].release_id)

\* C5: a release whose uploaded flag is false is never fetched and never
\* has a record in the produced batch.
C5_NotUploadedNeverFetched ==
  \A i \in 1..Len(releases_df) :
    ~releases_df[i].uploaded_to_s3 =>
      /\ ~Touched(releases_df[i].release_id)
      /\ ~Produced(releases_df[i].release_id)
      /\ (pc = "analyze" => analysis_data.release_id # releases_df[i].release_id)

\* C5 witness: a run has ended that produced a record for an uploaded
\* release and passed over one that is not uploaded.
C5_Witness ==
  /\ pc = "done"
  /\ Len(analysis_metadata) >= 1
  /\ \E i \in 1..Len(releases_df) : ~releases_df[i].uploaded_to_s3

\* C6: the workspace is released on every exit path of a release's
\* pipeline: whenever no release is under analysis, the scratch directory
\* holds no file.
C6_WorkspaceReleasedOnEveryExit ==
  pc \in {"loop", "upsert", "done", "aborted"} => scratch = {}

\* C7: workspace isolation: while a release is under analysis, the scratch
\* directory holds no file written for another release.
C7_NoFilesOfOtherReleases ==
  pc = "analyze" => \A f \in scratch : f.owner = analysis_data.release_id

\* C8: when the extracted tree holds no manifest, the lookup returns None
\* and the release's pipeline goes on.
C8_MissingManifestDegrades ==
  (/\ step = "EXTRACTED"
   /\ find_package_json(scratch, object_key) = [exc |-> "none", value |-> None])
    => pc = "analyze"

\* C9: a semgrep run that exits non-zero or prints no JSON does not end
\* the release's pipeline.
C9_ScanFailureDegrades ==
  (/\ step = "AUDITED"
   /\ tool.semgrep \in {"nonzero", "malformed"})
    => pc = "analyze"

\* C10: a failed lockfile resolution, a failed audit or malformed audit
\* output gives no advisories and does not end the release's pipeline.
C10_AuditFailureDegrades ==
  /\ (/\ step = "METADATA_EXTRACTED"
      /\ \/ tool.npm_install = "nonzero"
         \/ tool.npm_audit \in {"nonzero", "malformed"})
       => pc = "analyze"
  /\ (/\ pc = "analyze"
      /\ step = "AUDITED"
      /\ tool.npm_audit \in {"nonzero", "malformed"})
       => analysis_data.npm_audit_vulnerabilities = <<>>

\* ------------------------------- extract_semgrep_metadata on its own
MaxFindings == 4

Messages == {"m1", "m2", "m3"}

\* what semgrep_analysis can return: {} or a document with up to
\* MaxFindings results
ScanOutputs ==
  {SemgrepEmptyDict} \cup
  {[keys |-> {"results"}, results |-> [k \in 1..Len(ms) |-> Finding(ms[k])]] :
     ms \in SeqsUpTo(Messages, MaxFindings)}

\* analyze_extension, lines 275-276, with any such output
ExtractSemgrepMetadata ==
  /\ pc \in {"idle", "scanned"}
  /\ \E semgrep_output \in ScanOutputs :
       LET semgrep_metadata == extract_semgrep_metadata(semgrep_output)
       IN /\ locals' = [locals EXCEPT !.semgrep_output = semgrep_output]
          /\ exc' = semgrep_metadata.exc
          /\ analysis_data' =
               IF semgrep_metadata.exc # "none" THEN NoAnalysis
               ELSE [NoAnalysis EXCEPT !.keys = {"semgrep_detections"},
                                       !.semgrep_detections = semgrep_metadata.value]
  /\ pc' = "scanned"
  /\ UNCHANGED <<releases_df, store, scratch, today, runs, mainVars, step,
                 batch_i, tool, calls>>

NextScan == ExtractSemgrepMetadata

SpecScan == Init /\ [][NextScan]_vars

\* ------------------------------------------- one run over any releases
\* the extension a release refers to: one of the table, an extension it
\* shares with another release, or one that has no row (the inner join
\* drops the release)
JoinExtensionIds == {"e1", "e2", "e3"}

InitJoin ==
  /\ releases_df \in
       {[i \in 1..NumReleases |-> [ReleasesTable(u)[i] EXCEPT !.extension_id = e[i]]] :
          u \in [1..NumReleases -> BOOLEAN], e \in [1..NumReleases -> JoinExtensionIds]}
  /\ store = <<>>
  /\ scratch = {}
  /\ today = 1
  /\ runs = 0
  /\ pc = "idle"
  /\ exc = "none"
  /\ combined_df = <<>>
  /\ analyzed_release_ids = {}
  /\ idx = 0
  /\ analysis_metadata = <<>>
  /\ step = "NONE"
  /\ analysis_data = NoAnalysis
  /\ batch_i = 0
  /\ tool = NoTool
  /\ locals = NoLocals
  /\ calls = {}

\* a single invocation of main
StartOnlyRun == runs = 0 /\ StartRun

NextOneRun ==
  \/ StartOnlyRun
  \/ SkipRow
  \/ BeginAnalyze
  \/ DownloadVsixFile
  \/ UnzipVsixFile
  \/ PackageJsonAnalysis
  \/ NpmAuditAnalysis
  \/ SemgrepAnalysis
  \/ ClearAndReturn
  \/ EndLoop
  \/ UpsertBatchCommit
  \/ UpsertBatchFail
  \/ UpsertFinish

SpecJoin == InitJoin /\ [][NextOneRun]_vars

\* ------------------------------------------ versions that hold ".vsix"
\* the version strings a release can carry: "1.<i>" and "1.vsix.<i>"
KeyVersions(i) == {VersionFor(i), <<"1">> \o Chars(".vsix") \o <<".", ToString(i)>>}

InitKeys ==
  /\ releases_df \in
       {[i \in 1..NumReleases |-> [ReleasesTable(u)[i] EXCEPT !.version = v[i]]] :
          u \in [1..NumReleases -> BOOLEAN],
          v \in {w \in [1..NumReleases -> UNION {KeyVersions(i) : i \in 1..NumReleases}] :
                   \A i \in 1..NumReleases : w[i] \in KeyVersions(i)}}
  /\ store = <<>>
  /\ scratch = {}
  /\ today = 1
  /\ runs = 0
  /\ pc = "idle"
  /\ exc = "none"
  /\ combined_df = <<>>
  /\ analyzed_release_ids = {}
  /\ idx = 0
  /\ analysis_metadata = <<>>
  /\ step = "NONE"
  /\ analysis_data = NoAnalysis
  /\ batch_i = 0
  /\ tool = NoTool
  /\ locals = NoLocals
  /\ calls = {}

SpecKeys == InitKeys /\ [][Next]_vars

\* the seven columns of a record
RecordKeys ==
  {"analysis_id", "release_id", "insertion_date", "dependencies",
   "activation_events", "npm_audit_vulnerabilities", "semgrep_detections"}

\* the release identifiers of the store as a run would read them
StoredReleaseIds == {store[k].release_id : k \in 1..Len(store)}

\* the pipeline of the release under analysis ended in an exception
PipelineFailed == pc = "aborted" /\ exc # "PersistenceError"

\* C11: no record is persisted for a release whose pipeline did not reach
\* the end: every record of the batch has all seven columns, and a release
\* whose pipeline failed has no record in the batch, none in the store, and
\* is eligible when the store is read again.
C11_NoRecordUnlessAssembled ==
  /\ \A k \in 1..Len(analysis_metadata) : analysis_metadata[k].keys = RecordKeys
  /\ PipelineFailed =>
       /\ ~Produced(analysis_data.release_id)
       /\ ~Stored(analysis_data.release_id)
       /\ combined_df[idx].release_id = analysis_data.release_id
       /\ Eligible(combined_df[idx], StoredReleaseIds)

\* C11 witness: a pipeline failed after the metadata had been written into
\* its record, in a run whose batch already holds another release's record.
C11_Witness ==
  /\ PipelineFailed
  /\ step \in {"METADATA_EXTRACTED", "AUDITED"}
  /\ "dependencies" \in analysis_data.keys
  /\ Len(analysis_metadata) >= 1

\* C12: the findings of a record are the scanner's messages without
\* repetition and in first-seen order: no message occurs twice, the
\* messages are exactly those of the results, and one message stands before
\* another exactly as their first occurrences do in the results.
C12_FindingsDedupedFirstSeen ==
  (pc = "scanned" /\ exc = "none") =>
    LET results == locals.semgrep_output.results
        out == analysis_data.semgrep_detections
        First(m) == CHOOSE k \in 1..Len(results) :
                      /\ results[k].extra.message = m
                      /\ \A l \in 1..(k - 1) : results[l].extra.message # m
    IN /\ \A i, j \in 1..Len(out) : out[i] = out[j] => i = j
       /\ {out[i] : i \in 1..Len(out)} =
            {results[k].extra.message : k \in 1..Len(results)}
       /\ \A i, j \in 1..Len(out) : i < j => First(out[i]) < First(out[j])

\* C12 witness: one message came three times among the results, after and
\* before another one, and the findings hold it once.
C12_Witness ==
  /\ pc = "scanned" /\ exc = "none"
  /\ LET results == locals.semgrep_output.results
         out == analysis_data.semgrep_detections
     IN /\ Len(results) = 4
        /\ \E m \in Messages :
             /\ Cardinality({k \in 1..4 : results[k].extra.message = m}) = 3
             /\ results[1].extra.message # m
             /\ Cardinality({i \in 1..Len(out) : out[i] = m}) = 1
        /\ Len(out) = 2

\* C13: the advisories of a record are deduplicated: no two entries of
\* npm_audit_vulnerabilities have the same package, severity, title and url.
C13_AdvisoriesDeduplicated ==
  LET v == analysis_data.npm_audit_vulnerabilities
  IN \A i, j \in 1..Len(v) : v[i] = v[j] => i = j

\* C14: the batches of an upsert are independent: when the write of a batch
\* has failed, the failure has reached the caller (the run ended with it),
\* every row of the batches before it is in the store as it was written,
\* and no row of the failed batch or of a later one has been written.
C14_BatchesIndependent ==
  (pc = "aborted" /\ exc = "PersistenceError") =>
    LET values == Values(analysis_metadata)
        written == batch_i * BatchSize
    IN /\ written < Len(values)
       /\ \A k \in 1..written : \E s \in 1..Len(store) : store[s] = values[k]
       /\ \A k \in (written + 1)..Len(values) : ~Stored(values[k].release_id)

\* C14 witness: the write of a batch failed after an earlier batch of the
\* same upsert had been committed.
C14_Witness ==
  /\ pc = "aborted" /\ exc = "PersistenceError"
  /\ batch_i >= 1
  /\ Len(analysis_metadata) > batch_i * BatchSize
  /\ Stored(analysis_metadata[1].release_id)

\* C15: when the pipeline of a release has run through, its record is
\* exactly: analysis_id "analysis-" + release id, the release id, the
\* current date, the manifest's dependencies and activationEvents (empty
\* when the key is absent), one entry {package, severity, title, url} per
\* advisory of the audit in the audit's order, and the scanner's messages
\* at their first occurrences (empty when there is none).
C15_AssembledRecordExact ==
  (pc = "analyze" /\ step = "SCANNED") =>
    LET row == combined_df[idx]
        manifest == locals.package_json[1]
        advisories == IF "advisories" \in locals.audit_json.keys
                      THEN locals.audit_json.advisories ELSE <<>>
        results == locals.semgrep_output.results
        firsts == {k \in 1..Len(results) :
                     \A l \in 1..(k - 1) :
                       results[l].extra.message # results[k].extra.message}
        r == analysis_data
    IN /\ r.keys = RecordKeys
       /\ r.analysis_id = "analysis-" \o row.release_id
       /\ r.release_id = row.release_id
       /\ r.insertion_date = today
       /\ r.dependencies = IF "dependencies" \in manifest.keys
                           THEN manifest.dependencies ELSE <<>>
       /\ r.activation_events = IF "activationEvents" \in manifest.keys
                                THEN manifest.activationEvents ELSE <<>>
       /\ Len(r.npm_audit_vulnerabilities) = Len(advisories)
       /\ \A k \in 1..Len(advisories) :
            r.npm_audit_vulnerabilities[k] =
              [package |-> advisories[k].module_name,
               severity |-> advisories[k].severity,
               title |-> advisories[k].title,
               url |-> advisories[k].url]
       /\ Len(r.semgrep_detections) = Cardinality(firsts)
       /\ \A k \in firsts :
            r.semgrep_detections[Cardinality({f \in firsts : f <= k})] =
              results[k].extra.message

\* C15 witness: a pipeline has run through for a manifest with
\* dependencies and activation events, an audit with advisories and a scan
\* with repeated messages.
C15_Witness ==
  /\ pc = "analyze" /\ step = "SCANNED"
  /\ locals.package_json = Some(Manifest1)
  /\ locals.audit_json = AuditJson2
  /\ locals.semgrep_output = SemgrepJson4
  /\ analysis_data.activation_events # <<>>
  /\ analysis_data.semgrep_detections = <<"m1", "m2">>

\* the steps of a release's pipeline in the order of analyze_extension
Steps == <<"PENDING", "FETCHED", "EXTRACTED", "METADATA_EXTRACTED", "AUDITED",
           "SCANNED", "ASSEMBLED">>

StepNo(s) == CHOOSE n \in 1..Len(Steps) : Steps[n] = s

\* C16: the steps of a release happen in the order fetch, extract,
\* metadata, audit, scan, assembly: while a release is under analysis a
\* transition either takes its pipeline to the very next step or ends it
\* in a failure at the step where it stands; a pipeline begins at PENDING
\* only when no other is under way; and a record is appended to the batch
\* only by the transition from SCANNED to ASSEMBLED, and is the record of
\* that pipeline.
C16_StepsInOrder ==
  [][/\ pc = "analyze" =>
          \/ /\ step \in {Steps[n] : n \in 1..5}
             /\ pc' = "analyze"
             /\ step' = Steps[StepNo(step) + 1]
          \/ /\ step = "SCANNED"
             /\ pc' = "loop"
             /\ step' = "ASSEMBLED"
          \/ /\ pc' = "aborted"
             /\ step' = step
             /\ analysis_metadata' = analysis_metadata
     /\ (step' # step /\ pc # "analyze") =>
          \/ step \in {"NONE", "ASSEMBLED"} /\ step' = "PENDING" /\ pc' = "analyze"
          \/ step' = "NONE" /\ runs' = runs + 1
     /\ analysis_metadata' # analysis_metadata =>
          \/ /\ step = "SCANNED" /\ step' = "ASSEMBLED"
             /\ analysis_metadata' = Append(analysis_metadata, analysis_data)
          \/ analysis_metadata' = <<>> /\ runs' = runs + 1
    ]_vars

\* C16 witness: a release has gone through every step and its record is in
\* the batch.
C16_Witness ==
  /\ pc = "loop" /\ step = "ASSEMBLED"
  /\ Produced(analysis_data.release_id)
  /\ \A op \in ProcessingOps : Call(op) \in calls

\* C17: when the file downloaded for the release under analysis is not a
\* valid archive (no zip at all, or a corrupt one), neither the extraction
\* nor the manifest lookup after it ends the release's pipeline.
C17_InvalidArchiveDegrades ==
  (/\ step \in {"FETCHED", "EXTRACTED"}
   /\ \E f \in scratch : /\ f.kind = "vsix"
                          /\ f.path = DownloadPath(object_key)
                          /\ f.content.zip \in {"notzip", "badzip"})
    => pc = "analyze"

C19_SearchFolderIsUnzipFolder ==
  pc = "analyze" => SearchFolder(object_key) = UnzipFolder(object_key)

====
